---------------------------- MODULE Spec2Model ----------------------------
(***************************************************************************)
(* Model of the menu API (src/index.js, src/db.js): the POST /sync         *)
(* handler, its three sheet transformers, the sync_status upsert and the   *)
(* four read endpoints.                                                    *)
(*                                                                         *)
(* src/index.js holds two variants of the server.  Lines 1-265 answer a    *)
(* sync request at once and do the database work afterwards                *)
(* ("fireAndForget"); lines 267-545 await the work before answering        *)
(* ("awaiting").  The variable `variant` says which one is deployed.       *)
(*                                                                         *)
(* JavaScript values are tagged records; JavaScript strings are tuples of  *)
(* one-character strings, so that trim, toLowerCase, slice and the regular *)
(* expression of normalizeSheetTime are computed as the code computes them.*)
(***************************************************************************)
EXTENDS Integers, Sequences, FiniteSets, TLC

(***************************************************************************)
(* JavaScript values                                                       *)
(***************************************************************************)
Undef == [t |-> "undefined"]
Null == [t |-> "null"]
NaN == [t |-> "nan"]
Bool(b) == [t |-> "boolean", b |-> b]
Num(n) == [t |-> "number", n |-> n]
Str(s) == [t |-> "string", s |-> s]
Arr(a) == [t |-> "array", a |-> a]
\* A Date object: the hour and minute of its instant in UTC (h, m) and in the
\* process's time zone (lh, lm), which getHours and getMinutes answer.
DateObj(h, m, lh, lm) == [t |-> "date", h |-> h, m |-> m, lh |-> lh, lm |-> lm]

\* if (v), !v, v || w
Truthy(v) ==
    CASE v.t = "undefined" -> FALSE
      [] v.t = "null" -> FALSE
      [] v.t = "nan" -> FALSE
      [] v.t = "boolean" -> v.b
      [] v.t = "number" -> v.n # 0
      [] v.t = "string" -> v.s # <<>>
      [] OTHER -> TRUE

\* v || w
OrElse(v, w) == IF Truthy(v) THEN v ELSE w

IsDigit(c) == c \in {"0", "1", "2", "3", "4", "5", "6", "7", "8", "9"}

DigitChars == <<"0", "1", "2", "3", "4", "5", "6", "7", "8", "9">>

DigitValue(c) == CHOOSE d \in 0..9 : DigitChars[d + 1] = c

RECURSIVE Digits(_)
\* The decimal digits of a natural number, as String(n) writes them.
Digits(n) == IF n < 10 THEN <<DigitChars[n + 1]>>
             ELSE Digits(n \div 10) \o <<DigitChars[(n % 10) + 1]>>

RECURSIVE ParseDigits(_)
\* The value of a non-empty string of decimal digits.
ParseDigits(s) == IF Len(s) = 1 THEN DigitValue(s[1])
                  ELSE 10 * ParseDigits(SubSeq(s, 1, Len(s) - 1)) + DigitValue(s[Len(s)])

AllDigits(s) == \A i \in 1..Len(s) : IsDigit(s[i])

RECURSIVE TrimLeft(_)
TrimLeft(s) == IF s # <<>> /\ s[1] = " " THEN TrimLeft(Tail(s)) ELSE s

RECURSIVE TrimRight(_)
TrimRight(s) == IF s # <<>> /\ s[Len(s)] = " " THEN TrimRight(SubSeq(s, 1, Len(s) - 1)) ELSE s

\* String.prototype.trim
Trim(s) == TrimRight(TrimLeft(s))

LowerChar(c) ==
    CASE c = "C" -> "c" [] c = "S" -> "s" [] c = "N" -> "n" [] c = "T" -> "t"
      [] c = "R" -> "r" [] c = "U" -> "u" [] c = "E" -> "e" [] c = "M" -> "m"
      [] OTHER -> c

UpperChar(c) ==
    CASE c = "c" -> "C" [] c = "s" -> "S" [] c = "n" -> "N" [] c = "t" -> "T"
      [] c = "r" -> "R" [] c = "u" -> "U" [] c = "e" -> "E" [] c = "m" -> "M"
      [] OTHER -> c

\* String.prototype.toLowerCase
ToLowerCase(s) == [i \in 1..Len(s) |-> LowerChar(s[i])]

\* String.prototype.toUpperCase
ToUpperCase(s) == [i \in 1..Len(s) |-> UpperChar(s[i])]

\* String.prototype.slice(0, n)
Slice0(s, n) == SubSeq(s, 1, IF Len(s) < n THEN Len(s) ELSE n)

\* String.prototype.padStart(2, "0") of a number below 100
PadStart2(s) == IF Len(s) < 2 THEN <<"0">> \o s ELSE s

\* String(v), as a tuple of characters
ToStr(v) ==
    CASE v.t = "string" -> v.s
      [] v.t = "number" -> Digits(v.n)
      [] v.t = "boolean" -> IF v.b THEN <<"t", "r", "u", "e">> ELSE <<"f", "a", "l", "s", "e">>
      [] v.t = "null" -> <<"n", "u", "l", "l">>
      [] v.t = "nan" -> <<"N", "a", "N">>
      [] OTHER -> <<"u", "n", "d", "e", "f", "i", "n", "e", "d">>

\* Number(v)
ToNumber(v) ==
    CASE v.t = "number" -> v
      [] v.t = "boolean" -> Num(IF v.b THEN 1 ELSE 0)
      [] v.t = "null" -> Num(0)
      [] v.t = "string" ->
            LET s == Trim(v.s)
            IN IF s = <<>> THEN Num(0)
               ELSE IF AllDigits(s) THEN Num(ParseDigits(s)) ELSE NaN
      [] OTHER -> NaN

\* v.length: defined for strings and arrays only
HasLength(v) == v.t \in {"string", "array"}

LengthOf(v) == IF v.t = "string" THEN Len(v.s) ELSE Len(v.a)

\* v[i] (zero-based i), undefined where there is no such element
At(v, i) ==
    CASE v.t = "array" -> IF i < Len(v.a) THEN v.a[i + 1] ELSE Undef
      [] v.t = "string" -> IF i < Len(v.s) THEN Str(<<v.s[i + 1]>>) ELSE Undef
      [] OTHER -> Undef

\* const [a, b, ...] = v throws a TypeError unless v is iterable
Iterable(v) == v.t \in {"string", "array"}

\* values.slice(1)
Slice1(a) == IF a = <<>> THEN <<>> ELSE Tail(a)

(***************************************************************************)
(* String constants of the program and of the payloads                     *)
(***************************************************************************)
EmptyStr == <<>>
sMenu == <<"m", "e", "n", "u">>
sHours == <<"h", "o", "u", "r", "s">>
sLocation == <<"l", "o", "c", "a", "t", "i", "o", "n">>
sCurrentSpot == <<"c", "u", "r", "r", "e", "n", "t", "_", "s", "p", "o", "t">>
sNote == <<"n", "o", "t", "e">>
sTRUE == <<"T", "R", "U", "E">>

(***************************************************************************)
(* Authentication check                                                    *)
(***************************************************************************)
\* String(process.env.SYNC_KEY || "").trim()
expectedSyncKey(env) == Trim(ToStr(OrElse(env, Str(EmptyStr))))

\* String(req.headers["x-sync-key"] || "").trim()
incomingSyncKey(header) == Trim(ToStr(OrElse(header, Str(EmptyStr))))

requireSyncKeyPresenceOnly(env, header) ==
    IF expectedSyncKey(env) = EmptyStr THEN 500
    ELSE IF incomingSyncKey(header) = EmptyStr THEN 401
    ELSE 0

\* The status requireSyncKey answers with, or 0 where it lets the request through.
requireSyncKey(env, header) ==
    IF expectedSyncKey(env) = EmptyStr THEN 500
    ELSE IF incomingSyncKey(header) # expectedSyncKey(env) THEN 401
    ELSE 0

(***************************************************************************)
(* Payload validation                                                      *)
(***************************************************************************)
\* !business_id || !sheet || !Array.isArray(values)
InvalidPayload(body) ==
    ~Truthy(body.business_id) \/ ~Truthy(body.sheet) \/ body.values.t # "array"

(***************************************************************************)
(* Menu transformer: the row loop of syncMenu                              *)
(***************************************************************************)
\* if (!r || r.length < 5) continue;  (undefined < 5 is false)
MenuShort(r) == ~Truthy(r) \/ (HasLength(r) /\ LengthOf(r) < 5)

\* if (id === "" || name === "" || price === "") continue;
MenuEmpty(r) ==
    At(r, 0) = Str(EmptyStr) \/ At(r, 1) = Str(EmptyStr) \/ At(r, 2) = Str(EmptyStr)

MenuSkip(r) == MenuShort(r) \/ (Iterable(r) /\ MenuEmpty(r))

\* active === true || String(active).toUpperCase() === "TRUE"
ActiveOf(v) == v = Bool(TRUE) \/ ToUpperCase(ToStr(v)) = sTRUE

MenuRowOfKeepEmptyDescription(r) ==
    [id |-> ToNumber(At(r, 0)),
     name |-> Str(ToStr(At(r, 1))),
     price |-> ToNumber(At(r, 2)),
     description |-> Str(ToStr(At(r, 3))),
     active |-> ActiveOf(At(r, 4))]

\* The parameters of the INSERT INTO menu_items of one row.
MenuRowOf(r) ==
    [id |-> ToNumber(At(r, 0)),
     name |-> Str(ToStr(At(r, 1))),
     price |-> ToNumber(At(r, 2)),
     description |-> IF Truthy(At(r, 3)) THEN Str(ToStr(At(r, 3))) ELSE Null,
     active |-> ActiveOf(At(r, 4))]

(***************************************************************************)
(* Hours transformer: normalizeSheetTime and the row loop of syncHours     *)
(***************************************************************************)
\* /^\d{1,2}:\d{2}(:\d{2})?$/.test(s)
TimeRegex(s) ==
    LET n == Len(s)
        TwoDigits(i) == i + 1 <= n /\ IsDigit(s[i]) /\ IsDigit(s[i + 1])
        Rest(i) == \* from the first colon, at position i
            /\ TwoDigits(i + 1)
            /\ \/ n = i + 2
               \/ n = i + 5 /\ s[i + 3] = ":" /\ TwoDigits(i + 4)
    IN \/ n >= 2 /\ IsDigit(s[1]) /\ s[2] = ":" /\ Rest(2)
       \/ n >= 3 /\ IsDigit(s[1]) /\ IsDigit(s[2]) /\ s[3] = ":" /\ Rest(3)

\* new Date(s) for the ISO 8601 forms ECMAScript specifies: YYYY-MM-DD,
\* YYYY-MM-DDTHH:MM:SSZ and YYYY-MM-DDTHH:MM:SS.sssZ.  The other strings of the
\* model (bare times, words) are ones the engine answers Invalid Date for.
DateParse(s) ==
    LET n == Len(s)
        D(i) == IsDigit(s[i])
        V2(i) == 10 * DigitValue(s[i]) + DigitValue(s[i + 1])
        dateOk == /\ n >= 10
                  /\ D(1) /\ D(2) /\ D(3) /\ D(4) /\ s[5] = "-"
                  /\ D(6) /\ D(7) /\ s[8] = "-" /\ D(9) /\ D(10)
                  /\ V2(6) \in 1..12 /\ V2(9) \in 1..31
        timeOk == /\ n \in {20, 24}
                  /\ s[11] = "T" /\ D(12) /\ D(13) /\ s[14] = ":"
                  /\ D(15) /\ D(16) /\ s[17] = ":" /\ D(18) /\ D(19)
                  /\ V2(12) <= 23 /\ V2(15) <= 59 /\ V2(18) <= 59
                  /\ s[n] = "Z"
                  /\ n = 24 => (s[20] = "." /\ D(21) /\ D(22) /\ D(23))
    IN IF dateOk /\ n = 10 THEN [ok |-> TRUE, h |-> 0, m |-> 0]
       ELSE IF dateOk /\ timeOk THEN [ok |-> TRUE, h |-> V2(12), m |-> V2(15)]
       ELSE [ok |-> FALSE, h |-> 0, m |-> 0]

\* `${hh}:${mm}` with both parts padStart(2, "0")
HHMM(h, m) == Str(PadStart2(Digits(h)) \o <<":">> \o PadStart2(Digits(m)))

normalizeSheetTime(v) ==
    IF v.t \in {"null", "undefined"} \/ v = Str(EmptyStr) THEN Null
    ELSE IF v.t = "date" THEN HHMM(v.lh, v.lm)
    ELSE LET s == Trim(ToStr(v))
             d == DateParse(s)
         IN IF d.ok THEN HHMM(d.h, d.m)
            ELSE IF TimeRegex(s) THEN Str(Slice0(s, 5))
            ELSE Null

\* if (!r || r.length < 3) continue;
HoursShort(r) == ~Truthy(r) \/ (HasLength(r) /\ LengthOf(r) < 3)

\* ... const [day, open, close] = r; if (!day) continue;
HoursSkip(r) == HoursShort(r) \/ (Iterable(r) /\ ~Truthy(At(r, 0)))

\* The parameters of the INSERT INTO hours of one row, in either variant.
HoursRowOf(v, r) ==
    IF v = "fireAndForget"
    THEN [day |-> Str(Trim(ToStr(At(r, 0)))),
          open |-> normalizeSheetTime(At(r, 1)),
          close |-> normalizeSheetTime(At(r, 2))]
    ELSE [day |-> Str(ToStr(At(r, 0))),
          open |-> OrElse(At(r, 1), Null),
          close |-> OrElse(At(r, 2), Null)]

(***************************************************************************)
(* The row loops: which row the next INSERT is for                         *)
(***************************************************************************)
SkipRow(sheet, r) == IF sheet = Str(sMenu) THEN MenuSkip(r) ELSE HoursSkip(r)

\* From row i (1-based) of rows on: the index of the first row that is not
\* skipped, 0 when the loop ends, -1 when destructuring that row throws.
NextRow(sheet, rows, i) ==
    LET cand == {j \in i..Len(rows) : ~SkipRow(sheet, rows[j])}
    IN IF cand = {} THEN 0
       ELSE LET j == CHOOSE k \in cand : \A l \in cand : k <= l
            IN IF ~Iterable(rows[j]) THEN -1 ELSE j

(***************************************************************************)
(* Location transformer                                                    *)
(***************************************************************************)
\* Header-keyed variant: map[key] for key after the loop over the header row.
HeaderLookup(values, key) ==
    LET headers == OrElse(At(values, 0), Arr(<<>>))
        row == OrElse(At(values, 1), Arr(<<>>))
        n == IF HasLength(headers) THEN LengthOf(headers) ELSE 0
        KeyAt(i) == ToLowerCase(Trim(ToStr(OrElse(At(headers, i), Str(EmptyStr)))))
        hits == {i \in 0..(n - 1) : KeyAt(i) = key}
    IN IF hits = {} THEN Undef
       ELSE LET i == CHOOSE k \in hits : \A l \in hits : l <= k
            IN Str(Trim(ToStr(OrElse(At(row, i), Str(EmptyStr)))))

\* Label/value variant: the value of the last row labelled key, or null.
LabelLookup(values, key) ==
    LET rows == Slice1(values.a)
        LabelAt(i) == Trim(ToStr(OrElse(At(rows[i], 0), Str(EmptyStr))))
        hits == {i \in 1..Len(rows) : LabelAt(i) = key}
    IN IF hits = {} THEN Null
       ELSE LET i == CHOOSE k \in hits : \A l \in hits : l <= k
            IN Str(Trim(ToStr(OrElse(At(rows[i], 1), Str(EmptyStr)))))

\* r[0] of a null or undefined row throws, in the label/value variant's loop.
LocationThrows(v, values) ==
    /\ v = "awaiting"
    /\ \E i \in 1..Len(Slice1(values.a)) : Slice1(values.a)[i].t \in {"null", "undefined"}

LocationRowOfFirstMatch(v, values) ==
    LET First(key) ==
            LET headers == OrElse(At(values, 0), Arr(<<>>))
                row == OrElse(At(values, 1), Arr(<<>>))
            IN IF At(headers, 0) = Str(key) THEN OrElse(At(row, 0), Null)
               ELSE IF At(headers, 1) = Str(key) THEN OrElse(At(row, 1), Null)
               ELSE Null
    IN [current_spot |-> First(sCurrentSpot), note |-> First(sNote)]

\* The parameters of the INSERT ... ON CONFLICT of syncLocation.
LocationRowOf(v, values) ==
    IF v = "fireAndForget"
    THEN [current_spot |-> OrElse(HeaderLookup(values, sCurrentSpot), Null),
          note |-> OrElse(HeaderLookup(values, sNote), Null)]
    ELSE [current_spot |-> LabelLookup(values, sCurrentSpot),
          note |-> LabelLookup(values, sNote)]

(***************************************************************************)
(* Bounds and the inputs the environment draws from                        *)
(***************************************************************************)
\* Sync requests handled in one behaviour (concurrently, if they overlap).
MaxReq == 2
\* The server's clock runs from 0 to MaxClock.
MaxClock == 1

B1 == <<"b", "1">>
B2 == <<"b", "2">>
Businesses == {B1, B2}

sId == <<"i", "d">>
sK1 == <<"k", "1">>
sK2 == <<"k", "2">>
sSpecials == <<"s", "p", "e", "c", "i", "a", "l", "s">>
sTaco == <<"T", "a", "c", "o">>
sSoda == <<"S", "o", "d", "a">>
sMate == <<"M", "a", "t", "e">>
sOld == <<"O", "l", "d">>
sCold == <<"c", "o", "l", "d">>
sMon == <<"M", "o", "n">>
sTue == <<"T", "u", "e">>
sSun == <<"S", "u", "n">>
sElm == <<"E", "l", "m", " ", "S", "t">>
sCash == <<"c", "a", "s", "h">>
s1100 == <<"1", "1", ":", "0", "0">>
s110000 == <<"1", "1", ":", "0", "0", ":", "0", "0">>
s900 == <<"9", ":", "0", "0">>
s2130 == <<"2", "1", ":", "3", "0">>
sIso0500 == <<"1", "8", "9", "9", "-", "1", "2", "-", "3", "0", "T",
              "0", "5", ":", "0", "0", ":", "0", "0", ".", "0", "0", "0", "Z">>
sIso1730 == <<"1", "8", "9", "9", "-", "1", "2", "-", "3", "0", "T",
              "1", "7", ":", "3", "0", ":", "0", "0", "Z">>
sClosed == <<"c", "l", "o", "s", "e", "d">>

\* The values process.env.SYNC_KEY may hold: unset, a key, a key with stray blanks.
EnvKeys == {Undef, Str(sK1), Str(<<" ">> \o sK1 \o <<" ">>)}

\* The x-sync-key header: absent, the key, the key with a blank, another key.
Headers == {Undef, Str(sK1), Str(sK1 \o <<" ">>), Str(sK2)}

MenuHeader == Arr(<<Str(sId), Str(<<"n">>), Str(<<"p">>), Str(<<"d">>), Str(<<"a">>)>>)
HoursHeader == Arr(<<Str(<<"d">>), Str(<<"o">>), Str(<<"c">>)>>)

\* The end-to-end payload of the specification: one valid row.
PM1 == Arr(<<MenuHeader,
             Arr(<<Num(1), Str(sTaco), Num(350), Str(EmptyStr), Str(sTRUE)>>)>>)
\* Two valid rows around an id-less row, a short row, a price-less row and a null row.
PM2 == Arr(<<MenuHeader,
             Arr(<<Str(<<"3">>), Str(sSoda), Num(100), Str(sCold), Bool(TRUE)>>),
             Arr(<<Str(EmptyStr), Str(sTaco), Num(1), Str(EmptyStr), Bool(FALSE)>>),
             Arr(<<Num(4), Str(sTaco)>>),
             Arr(<<Num(5), Str(sTaco), Str(EmptyStr), Str(EmptyStr), Bool(TRUE)>>),
             Null,
             Arr(<<Num(2), Str(sMate), Str(<<"9", "0">>), Null, Str(<<"t", "r", "u", "e">>)>>)>>)
\* An array, but of scalars: not a two-dimensional sequence.
PFlat == Arr(<<Num(1), Num(2)>>)
PH1 == Arr(<<HoursHeader,
             Arr(<<Str(sMon), Str(s110000), Str(EmptyStr)>>),
             Arr(<<Str(EmptyStr), Str(s1100), Str(s2130)>>),
             Arr(<<Str(sSun)>>)>>)
PH2 == Arr(<<HoursHeader,
             Arr(<<Str(<<" ">> \o sTue), Str(sIso0500), Str(s900)>>),
             Arr(<<Str(sSun), Str(sClosed), Str(sIso1730)>>)>>)
\* Location, header row and data row.
PLa == Arr(<<Arr(<<Str(<<"C", "u", "r", "r", "e", "n", "t", "_", "S", "p", "o", "t", " ">>), Str(sNote)>>),
             Arr(<<Str(<<" ">> \o sElm), Str(EmptyStr)>>)>>)
\* Location, label/value rows after a header row.
PLb == Arr(<<Arr(<<Str(<<"l">>), Str(<<"v">>)>>),
             Arr(<<Str(sCurrentSpot), Str(EmptyStr)>>),
             Arr(<<Str(sNote), Str(sCash \o <<" ">>)>>)>>)
\* Location, label/value rows with a null row among them.
PLnull == Arr(<<Arr(<<Str(<<"l">>), Str(<<"v">>)>>), Null>>)

Body(b, sh, vals) == [business_id |-> b, sheet |-> sh, values |-> vals]

\* Bodies that pass the payload check and name a known sheet.
SyncBodies ==
    {Body(Str(B1), Str(sMenu), v) : v \in {PM1, PM2, PFlat}}
    \cup {Body(Str(B1), Str(sHours), v) : v \in {PH1, PH2}}
    \cup {Body(Str(B1), Str(sLocation), v) : v \in {PLa, PLb, PLnull}}
    \cup {Body(Str(B2), Str(sMenu), PM1), Body(Str(B2), Str(sLocation), PLa)}

\* Bodies the payload check or the dispatch has to turn away, and two it lets through.
GateBodies ==
    {Body(Str(B1), Str(sMenu), PM1),
     Body(Str(B2), Str(sLocation), PLa),
     Body(Str(B1), Str(sMenu), PFlat),
     Body(Str(B1), Str(sHours), PFlat),
     Body(Str(B1), Str(sLocation), PFlat),
     Body(Str(B1), Str(sSpecials), PM1),
     Body(Str(B2), Str(sSpecials), PFlat),
     Body(Str(B1), Undef, PM1),
     Body(Str(B1), Str(EmptyStr), PH1),
     Body(Str(EmptyStr), Str(sMenu), PM1),
     Body(Undef, Str(sHours), PH1),
     Body(Num(0), Str(sLocation), PLa),
     Body(Str(B1), Str(sMenu), Undef),
     Body(Str(B1), Str(sLocation), Str(sElm))}

\* What the tables hold before the first request of a behaviour.
PriorMenu == <<[id |-> Num(9), name |-> Str(sOld), price |-> Num(500),
                description |-> Null, active |-> TRUE]>>
PriorHours == <<[day |-> Str(sSun), open |-> Str(s1100), close |-> Null]>>
NoRow == [t |-> "norow"]

(***************************************************************************)
(* State                                                                   *)
(***************************************************************************)
VARIABLES
    variant,      \* which variant of src/index.js is deployed
    SYNC_KEY,     \* process.env.SYNC_KEY
    menu_items,   \* table menu_items: business -> its rows, in insertion order
    hours,        \* table hours: business -> its rows, in insertion order
    location,     \* table location: business -> its row, or NoRow
    sync_status,  \* table sync_status: business -> its row, or NoRow
    now,          \* the server's clock (NOW())
    req,          \* the sync requests: slot -> the handler's state
    lastRead      \* the answer to the latest GET /business/:id/... request

vars == <<variant, SYNC_KEY, menu_items, hours, location, sync_status, now, req, lastRead>>

tables == <<menu_items, hours, location, sync_status>>

Slots == 1..MaxReq

\* A slot no request has arrived in yet.
IdleReq == [pc |-> "idle", header |-> Undef, body |-> Body(Undef, Undef, Undef),
            resp |-> 0, i |-> 0, recvAt |-> 0, failed |-> FALSE, wrote |-> {},
            disturbed |-> FALSE]

NoRead == [kind |-> "none", business |-> EmptyStr, status |-> 0, result |-> Null]

\* The state after startup, but for the configured key.
Started ==
    /\ variant \in {"fireAndForget", "awaiting"}
    /\ menu_items = [b \in Businesses |-> PriorMenu]
    /\ hours = [b \in Businesses |-> PriorHours]
    /\ location = [b \in Businesses |-> NoRow]
    /\ sync_status = [b \in Businesses |-> NoRow]
    /\ now = 0
    /\ req = [r \in Slots |-> IdleReq]
    /\ lastRead = NoRead

\* A server configured with a key.
Init == Started /\ SYNC_KEY = Str(<<" ">> \o sK1 \o <<" ">>)

\* A server whose SYNC_KEY may be unset.
InitGate == Started /\ SYNC_KEY \in EnvKeys

(***************************************************************************)
(* POST /sync                                                              *)
(***************************************************************************)
BusinessOf(q) == ToStr(q.body.business_id)

RowsOf(q) == Slice1(q.body.values.a)

\* Request o writes the same rows as request r, and its transformer has begun
\* writing them (it is past its DELETE) or is through with them.
SameTarget(r, o) ==
    /\ o # r
    /\ req[o].pc \in {"insert", "upsert_status"}
    /\ req[o].body.sheet = req[r].body.sheet
    /\ BusinessOf(req[o]) = BusinessOf(req[r])

\* req after a DELETE, INSERT or location upsert of request r that leaves r as q: the requests
\* whose rows that statement touched after their own DELETE are marked disturbed.
AfterWrite(r, q) ==
    [o \in Slots |->
        IF o = r THEN q
        ELSE IF SameTarget(r, o) THEN [req[o] EXCEPT !.disturbed = TRUE]
        ELSE req[o]]

CaughtThenStamp(q) ==
    [q EXCEPT !.pc = "upsert_status", !.failed = TRUE,
              !.resp = IF variant = "awaiting" THEN 500 ELSE q.resp]

\* The catch block: the error is logged; the awaiting variant answers 500.
Caught(q) ==
    [q EXCEPT !.pc = "done", !.failed = TRUE,
              !.resp = IF variant = "awaiting" THEN 500 ELSE q.resp]

\* After a statement of the row loop: the loop runs on to the next INSERT, to
\* its end (then the sync_status upsert is issued), or to a row that throws.
Continue(q, from) ==
    LET j == NextRow(q.body.sheet, RowsOf(q), from)
    IN IF j > 0 THEN [q EXCEPT !.pc = "insert", !.i = j]
       ELSE IF j = 0 THEN [q EXCEPT !.pc = "upsert_status"]
       ELSE Caught(q)

\* The handler up to its first await, for a request that passed the key check
\* and the payload check.
Dispatch(q) ==
    LET a == IF variant = "fireAndForget" THEN [q EXCEPT !.resp = 200] ELSE q
    IN IF q.body.sheet \in {Str(sMenu), Str(sHours)} THEN [a EXCEPT !.pc = "delete"]
       ELSE IF q.body.sheet = Str(sLocation)
            THEN IF LocationThrows(variant, q.body.values) THEN Caught(a)
                 ELSE [a EXCEPT !.pc = "upsert_location"]
       ELSE IF variant = "fireAndForget" THEN [a EXCEPT !.pc = "done"]
       ELSE [a EXCEPT !.pc = "done", !.resp = 400]

\* app.post("/sync"): the synchronous part of the handler.
Handle(q) ==
    LET auth == requireSyncKey(SYNC_KEY, q.header)
    IN IF auth # 0 THEN [q EXCEPT !.pc = "done", !.resp = auth]
       ELSE IF InvalidPayload(q.body) THEN [q EXCEPT !.pc = "done", !.resp = 400]
       ELSE Dispatch(q)

\* A request with header h and the given body arrives in slot r.
Arrive(r, h, body) ==
    /\ req[r].pc = "idle"
    /\ IF r = 1 THEN TRUE ELSE req[r - 1].pc # "idle"
    /\ req' = [req EXCEPT ![r] =
                 Handle([IdleReq EXCEPT !.header = h, !.body = body, !.recvAt = now])]
    /\ lastRead' = NoRead
    /\ UNCHANGED <<variant, SYNC_KEY, tables, now>>

\* POST /sync from the spreadsheet's script: the right key, a well-formed body.
Receive(r) == \E body \in SyncBodies : Arrive(r, Str(sK1), body)

\* POST /sync from anyone: any header, any body.
ReceiveAny(r) == \E h \in Headers, body \in GateBodies : Arrive(r, h, body)

\* DELETE FROM menu_items / hours WHERE business_id = $1
Delete(r) ==
    LET q == req[r]
        b == BusinessOf(q)
        tbl == IF q.body.sheet = Str(sMenu) THEN "menu_items" ELSE "hours"
    IN /\ q.pc = "delete"
       /\ IF tbl = "menu_items"
          THEN menu_items' = [menu_items EXCEPT ![b] = <<>>] /\ UNCHANGED hours
          ELSE hours' = [hours EXCEPT ![b] = <<>>] /\ UNCHANGED menu_items
       /\ req' = AfterWrite(r, Continue([q EXCEPT !.wrote = @ \cup {tbl}], 1))
       /\ UNCHANGED <<variant, SYNC_KEY, location, sync_status, now>>
       /\ lastRead' = NoRead

\* INSERT INTO menu_items / hours: the row the loop stands at.
Insert(r) ==
    LET q == req[r]
        b == BusinessOf(q)
        row == RowsOf(q)[q.i]
    IN /\ q.pc = "insert"
       /\ IF q.body.sheet = Str(sMenu)
          THEN /\ menu_items' = [menu_items EXCEPT ![b] = Append(@, MenuRowOf(row))]
               /\ UNCHANGED hours
               /\ req' = AfterWrite(r, Continue([q EXCEPT !.wrote = @ \cup {"menu_items"}], q.i + 1))
          ELSE /\ hours' = [hours EXCEPT ![b] = Append(@, HoursRowOf(variant, row))]
               /\ UNCHANGED menu_items
               /\ req' = AfterWrite(r, Continue([q EXCEPT !.wrote = @ \cup {"hours"}], q.i + 1))
       /\ UNCHANGED <<variant, SYNC_KEY, location, sync_status, now>>
       /\ lastRead' = NoRead

\* INSERT INTO location ... ON CONFLICT (business_id) DO UPDATE
UpsertLocation(r) ==
    LET q == req[r]
    IN /\ q.pc = "upsert_location"
       /\ location' = [location EXCEPT ![BusinessOf(q)] = LocationRowOf(variant, q.body.values)]
       /\ req' = AfterWrite(r, [q EXCEPT !.pc = "upsert_status",
                                          !.wrote = @ \cup {"location"}])
       /\ UNCHANGED <<variant, SYNC_KEY, menu_items, hours, sync_status, now>>
       /\ lastRead' = NoRead

\* INSERT INTO sync_status ... ON CONFLICT (business_id) DO UPDATE, then the
\* handler ends: the awaiting variant answers {status: "ok"}.
UpsertStatus(r) ==
    LET q == req[r]
    IN /\ q.pc = "upsert_status"
       /\ sync_status' = [sync_status EXCEPT ![BusinessOf(q)] =
                            [last_synced_at |-> now, last_sheet |-> q.body.sheet]]
       /\ req' = [req EXCEPT ![r] = [q EXCEPT !.pc = "done", !.resp = 200,
                                              !.wrote = @ \cup {"sync_status"}]]
       /\ UNCHANGED <<variant, SYNC_KEY, menu_items, hours, location, now>>
       /\ lastRead' = NoRead

\* The statement request r awaits is rejected (the connection is lost, the
\* pool times out, a constraint is violated): it changes nothing, and the
\* handler's catch block runs.
QueryFails(r) ==
    /\ req[r].pc \in {"delete", "insert", "upsert_location", "upsert_status"}
    /\ req' = [req EXCEPT ![r] = Caught(req[r])]
    /\ UNCHANGED <<variant, SYNC_KEY, tables, now>>
    /\ lastRead' = NoRead

Tick ==
    /\ now < MaxClock
    /\ now' = now + 1
    /\ UNCHANGED <<variant, SYNC_KEY, tables, req>>
    /\ lastRead' = NoRead

(***************************************************************************)
(* Read endpoints                                                          *)
(***************************************************************************)
RECURSIVE InsertById(_, _)
InsertById(row, sorted) ==
    IF sorted = <<>> THEN <<row>>
    ELSE IF row.id.n < Head(sorted).id.n THEN <<row>> \o sorted
    ELSE <<Head(sorted)>> \o InsertById(row, Tail(sorted))

RECURSIVE OrderById(_)
\* ORDER BY id ASC (rows of equal id keep their order)
OrderById(rows) ==
    IF rows = <<>> THEN <<>>
    ELSE InsertById(rows[Len(rows)], OrderById(SubSeq(rows, 1, Len(rows) - 1)))

\* The JSON body of GET /business/:id/menu
GetMenuResult(b) == OrderById(menu_items[b])

\* The query has no ORDER BY: the rows come as the table holds them.
GetHoursResult(b) == hours[b]

\* result.rows[0] || { current_spot: null, note: null }
GetLocationResult(b) ==
    IF location[b] = NoRow THEN [current_spot |-> Null, note |-> Null] ELSE location[b]

\* result.rows[0] || null
GetStatusResult(b) == IF sync_status[b] = NoRow THEN Null ELSE sync_status[b]

GetMenu(b) ==
    /\ lastRead' = [kind |-> "menu", business |-> b, status |-> 200, result |-> GetMenuResult(b)]
    /\ UNCHANGED <<variant, SYNC_KEY, tables, now, req>>

GetHours(b) ==
    /\ lastRead' = [kind |-> "hours", business |-> b, status |-> 200, result |-> GetHoursResult(b)]
    /\ UNCHANGED <<variant, SYNC_KEY, tables, now, req>>

GetLocation(b) ==
    /\ lastRead' = [kind |-> "location", business |-> b, status |-> 200, result |-> GetLocationResult(b)]
    /\ UNCHANGED <<variant, SYNC_KEY, tables, now, req>>

GetStatus(b) ==
    /\ lastRead' = [kind |-> "status", business |-> b, status |-> 200, result |-> GetStatusResult(b)]
    /\ UNCHANGED <<variant, SYNC_KEY, tables, now, req>>

\* The SELECT of a read endpoint is rejected: 500 and a generic message.
GetFails(b) ==
    /\ \E k \in {"menu", "hours", "location", "status"} :
          lastRead' = [kind |-> k, business |-> b, status |-> 500, result |-> Null]
    /\ UNCHANGED <<variant, SYNC_KEY, tables, now, req>>

Next ==
    \/ \E r \in Slots : Receive(r)
    \/ \E r \in Slots : Delete(r)
    \/ \E r \in Slots : Insert(r)
    \/ \E r \in Slots : UpsertLocation(r)
    \/ \E r \in Slots : UpsertStatus(r)
    \/ \E r \in Slots : QueryFails(r)
    \/ Tick
    \/ \E b \in Businesses : GetMenu(b)
    \/ \E b \in Businesses : GetHours(b)
    \/ \E b \in Businesses : GetLocation(b)
    \/ \E b \in Businesses : GetStatus(b)
    \/ \E b \in Businesses : GetFails(b)

Spec == Init /\ [][Next]_vars

NextGate ==
    \/ \E r \in Slots : ReceiveAny(r)
    \/ \E r \in Slots : Delete(r)
    \/ \E r \in Slots : Insert(r)
    \/ \E r \in Slots : UpsertLocation(r)
    \/ \E r \in Slots : UpsertStatus(r)
    \/ \E r \in Slots : QueryFails(r)

SpecGate == InitGate /\ [][NextGate]_vars

(***************************************************************************)
(* Properties                                                              *)
(***************************************************************************)
Arrived == {r \in Slots : req[r].pc # "idle"}

\* The x-sync-key header and the configured key, trimmed; "" where absent.
TrimmedHeader(r) == IF req[r].header = Undef THEN EmptyStr ELSE Trim(req[r].header.s)

TrimmedConfigured == IF SYNC_KEY = Undef THEN EmptyStr ELSE Trim(SYNC_KEY.s)

KeyMissingOrDifferent(r) ==
    TrimmedHeader(r) = EmptyStr \/ TrimmedHeader(r) # TrimmedConfigured

OnlyKeyedRequestsWrite ==
    \A r \in Arrived :
        req[r].wrote # {} =>
            /\ TrimmedHeader(r) # EmptyStr
            /\ TrimmedConfigured # EmptyStr
            /\ TrimmedHeader(r) = TrimmedConfigured

\* C1 as stated: a request whose trimmed key is missing or differs from the
\* trimmed configured key is answered 401 and writes no table, and only a
\* request whose key and the configured key are non-empty and equal writes.
C1_WrongKeyIs401 ==
    /\ \A r \in Arrived :
          KeyMissingOrDifferent(r) => req[r].resp = 401 /\ req[r].wrote = {}
    /\ OnlyKeyedRequestsWrite

\* C1 as amended: such a request is answered 401 when a key is configured and
\* 500 when SYNC_KEY is unset or blank; either way it writes no table, and only
\* a request whose key and the configured key are non-empty and equal writes.
C1_WrongKeyRejected ==
    /\ \A r \in Arrived :
          KeyMissingOrDifferent(r) =>
              /\ req[r].resp = IF TrimmedConfigured = EmptyStr THEN 500 ELSE 401
              /\ req[r].pc = "done"
              /\ req[r].wrote = {}
    /\ OnlyKeyedRequestsWrite

\* A well-formed menu sync under another key is answered 401 while a request
\* under the right key has replaced rows.
C1_Witness ==
    \E r \in Arrived, o \in Arrived :
        /\ req[r].header = Str(sK2)
        /\ req[r].body = Body(Str(B1), Str(sMenu), PM1)
        /\ req[r].resp = 401
        /\ req[o].header = Str(sK1 \o <<" ">>)
        /\ "menu_items" \in req[o].wrote

Authenticated(r) ==
    TrimmedConfigured # EmptyStr /\ TrimmedHeader(r) = TrimmedConfigured

SheetNames == {Str(sMenu), Str(sHours), Str(sLocation)}

\* C2: an authenticated request with a truthy business_id, an array of values
\* and a sheet other than "menu", "hours", "location" is answered 400 and
\* writes no table.
C2_UnknownSheetIs400 ==
    \A r \in Arrived :
        ( /\ Authenticated(r)
          /\ req[r].body.business_id \in {Str(B1), Str(B2)}
          /\ req[r].body.values.t = "array"
          /\ req[r].body.sheet \notin SheetNames )
        => req[r].resp = 400 /\ req[r].wrote = {}

\* values is a sequence of sequences.
TwoDimensional(v) == v.t = "array" /\ \A i \in 1..Len(v.a) : v.a[i].t = "array"

Malformed(body) ==
    \/ body.business_id \in {Undef, Null, Str(EmptyStr), Num(0)}
    \/ body.sheet \in {Undef, Null, Str(EmptyStr)}
    \/ ~TwoDimensional(body.values)

\* C3: an authenticated request with a malformed payload (business_id falsy,
\* sheet missing, values not two-dimensional) never writes a table, and is
\* answered 400.
C3_MalformedIs400 ==
    \A r \in Arrived :
        Authenticated(r) /\ Malformed(req[r].body) =>
            /\ req[r].wrote = {}
            /\ req[r].pc = "done" => req[r].resp = 400

\* A non-header row the menu sync keeps: at least 5 columns, and id, name and
\* price all other than the empty string.
KeptMenuRow(r) ==
    /\ r.t = "array"
    /\ Len(r.a) >= 5
    /\ r.a[1] # Str(EmptyStr) /\ r.a[2] # Str(EmptyStr) /\ r.a[3] # Str(EmptyStr)

\* The row written for a kept row: id and price as numbers, an empty or absent
\* description as null, active true iff boolean true or the string "TRUE" in any case.
WrittenMenuRow(r) ==
    [id |-> ToNumber(r.a[1]),
     name |-> Str(ToStr(r.a[2])),
     price |-> ToNumber(r.a[3]),
     description |-> IF r.a[4] \in {Str(EmptyStr), Null, Undef} THEN Null ELSE Str(ToStr(r.a[4])),
     active |-> r.a[5] = Bool(TRUE) \/ (r.a[5].t = "string" /\ ToUpperCase(r.a[5].s) = sTRUE)]

\* The menu rows of a payload: its kept rows after the header row, in input order.
MenuRowsOfPayload(values) ==
    LET kept == SelectSeq(Tail(values.a), KeptMenuRow)
    IN [k \in 1..Len(kept) |-> WrittenMenuRow(kept[k])]

\* C4: when the menu transformer of a sync for business B has completed
\* without error, no other request having written B's menu rows since its
\* DELETE, B's rows in menu_items are exactly the rows of the payload, in
\* input order, whatever the table held before.
C4_MenuReflectsPayload ==
    \A r \in Arrived :
        ( /\ req[r].body.sheet = Str(sMenu)
          /\ req[r].pc = "upsert_status"
          /\ ~req[r].disturbed )
        => menu_items[BusinessOf(req[r])] = MenuRowsOfPayload(req[r].body.values)

\* The second sync of a business's menu has completed its transformer: the
\* two rows it keeps out of six have replaced the rows of the first sync.
C4_Witness ==
    /\ req[1].body = Body(Str(B1), Str(sMenu), PM1)
    /\ req[1].pc = "done" /\ ~req[1].failed
    /\ req[2].body = Body(Str(B1), Str(sMenu), PM2)
    /\ req[2].pc = "upsert_status" /\ ~req[2].disturbed
    /\ Len(menu_items[B1]) = 2

\* C5: a success answer to a sync for B and sheet S means the writes and the
\* sync_status upsert of that request are done: the request has not failed,
\* and a status read for B, no other sync for B having arrived, shows S and a
\* time not before the request's receipt.
C5_SuccessMeansWritten ==
    \A r \in Arrived :
        req[r].resp \in 200..299 =>
            /\ req[r].pc = "done"
            /\ ~req[r].failed
            /\ "sync_status" \in req[r].wrote
            /\ ( /\ lastRead.kind = "status" /\ lastRead.status = 200
                 /\ lastRead.business = BusinessOf(req[r])
                 /\ \A o \in Arrived \ {r} : BusinessOf(req[o]) # BusinessOf(req[r]) )
               => /\ lastRead.result # Null
                  /\ lastRead.result.last_sheet = req[r].body.sheet
                  /\ lastRead.result.last_synced_at >= req[r].recvAt

\* C6: a sync whose transformer or upsert failed has not written sync_status;
\* a business's sync_status row, if there is one, is that of a sync that
\* succeeded: its sheet, and a time not before its receipt.
C6_FailureKeepsStatus ==
    /\ \A r \in Arrived : req[r].failed => "sync_status" \notin req[r].wrote
    /\ \A b \in Businesses :
          sync_status[b] # NoRow =>
              \E o \in Arrived :
                  /\ req[o].pc = "done" /\ ~req[o].failed
                  /\ BusinessOf(req[o]) = b
                  /\ sync_status[b].last_sheet = req[o].body.sheet
                  /\ sync_status[b].last_synced_at >= req[o].recvAt

\* A menu sync of B1 succeeded; then an hours sync of B1 failed after its
\* DELETE: the status row still names the menu sync.
C6_Witness ==
    /\ req[1].body.sheet = Str(sMenu) /\ BusinessOf(req[1]) = B1
    /\ req[1].pc = "done" /\ ~req[1].failed
    /\ req[2].body.sheet = Str(sHours) /\ BusinessOf(req[2]) = B1
    /\ req[2].failed /\ "hours" \in req[2].wrote
    /\ sync_status[B1] # NoRow
    /\ sync_status[B1].last_sheet = Str(sMenu)

\* The location fields each payload of the model holds, read as the deployed
\* variant reads it (header-keyed or label/value), before absence and
\* emptiness are turned into null: "absent" where the payload has no such field.
LocationFields(v, values) ==
    CASE v = "fireAndForget" /\ values = PLa -> [current_spot |-> Str(sElm), note |-> Str(EmptyStr)]
      [] v = "awaiting" /\ values = PLb -> [current_spot |-> Str(EmptyStr), note |-> Str(sCash)]
      [] OTHER -> [current_spot |-> Undef, note |-> Undef]

\* null for an absent or empty field
NullIfAbsentOrEmpty(f) == IF f \in {Undef, Str(EmptyStr)} THEN Null ELSE f

\* null for an absent field, and for an empty one in the header-keyed variant
NullIfAbsent(v, f) ==
    IF f = Undef \/ (v = "fireAndForget" /\ f = Str(EmptyStr)) THEN Null ELSE f

\* Every location sync applied to request r's business so far carried r's payload.
OnlyPayloadApplied(r) ==
    \A o \in Arrived :
        ( /\ "location" \in req[o].wrote
          /\ BusinessOf(req[o]) = BusinessOf(req[r]) )
        => req[o].body.values = req[r].body.values

\* Request r's location upsert has run and is the latest for its business, or
\* only r's payload has been applied to its business, once or more.
LocationApplied(r) ==
    /\ req[r].body.sheet = Str(sLocation)
    /\ "location" \in req[r].wrote
    /\ \/ req[r].pc = "upsert_status" /\ ~req[r].disturbed
       \/ OnlyPayloadApplied(r)

\* C7 as stated: B's one location row holds the fields of the last applied
\* payload, null for an absent or empty field, also when the same payload is
\* applied again.
C7_LocationNullForEmpty ==
    \A r \in Arrived :
        LocationApplied(r) =>
            LET f == LocationFields(variant, req[r].body.values)
            IN location[BusinessOf(req[r])] =
                  [current_spot |-> NullIfAbsentOrEmpty(f.current_spot),
                   note |-> NullIfAbsentOrEmpty(f.note)]

\* C7 as amended: B's one location row holds the fields of the last applied
\* payload, null for an absent field; an empty field gives null in the
\* header-keyed variant and the empty string in the label/value variant; the
\* same payload applied again leaves the row as it is.
C7_LocationUpserted ==
    \A r \in Arrived :
        LocationApplied(r) =>
            LET f == LocationFields(variant, req[r].body.values)
            IN location[BusinessOf(req[r])] =
                  [current_spot |-> NullIfAbsent(variant, f.current_spot),
                   note |-> NullIfAbsent(variant, f.note)]

\* The header-keyed payload has been applied twice to B1.
C7_Witness ==
    /\ variant = "fireAndForget"
    /\ \A r \in 1..2 : /\ req[r].body = Body(Str(B1), Str(sLocation), PLa)
                       /\ "location" \in req[r].wrote
    /\ location[B1] = [current_spot |-> Str(sElm), note |-> Null]

\* The rows a payload's hours sync writes: one per row after the header that
\* has at least 3 columns and a day.
HoursRowsOfPayload(values) ==
    LET Kept(r) == r.t = "array" /\ Len(r.a) >= 3 /\ Truthy(r.a[1])
        kept == SelectSeq(Tail(values.a), Kept)
    IN [k \in 1..Len(kept) |-> HoursRowOf(variant, kept[k])]

RowsOfPayload(body) ==
    IF body.sheet = Str(sMenu) THEN MenuRowsOfPayload(body.values)
    ELSE HoursRowsOfPayload(body.values)

\* C8: once two syncs of the same sheet (menu or hours) and business have both
\* finished without failure, the business's rows are those of one of the two
\* payloads: no mixture, union or duplication.  (Stated for two different
\* payloads: those of the model share no menu id, so no uniqueness constraint
\* the schema may hold on (business_id, id) can reject one of their INSERTs.)
C8_OneOfTheTwoPayloads ==
    \A r \in Arrived, o \in Arrived :
        ( /\ r # o
          /\ req[r].body.values # req[o].body.values
          /\ req[r].body.sheet \in {Str(sMenu), Str(sHours)}
          /\ req[o].body.sheet = req[r].body.sheet
          /\ BusinessOf(req[o]) = BusinessOf(req[r])
          /\ req[r].pc = "done" /\ ~req[r].failed
          /\ req[o].pc = "done" /\ ~req[o].failed
          /\ \A x \in Arrived \ {r, o} : req[x].body.sheet # req[r].body.sheet )
        => LET rows == IF req[r].body.sheet = Str(sMenu)
                       THEN menu_items[BusinessOf(req[r])]
                       ELSE hours[BusinessOf(req[r])]
           IN rows \in {RowsOfPayload(req[r].body), RowsOfPayload(req[o].body)}

\* C9: a menu read of a business whose menu one sync, and no other request,
\* has been working on returns the rows from before that sync or the rows of
\* its payload, never an empty or partial set, also when the sync has failed.
C9_ReadsSeeWholeMenus ==
    ( /\ lastRead.kind = "menu" /\ lastRead.status = 200
      /\ Arrived = {1}
      /\ req[1].body.sheet = Str(sMenu)
      /\ BusinessOf(req[1]) = lastRead.business )
    => lastRead.result \in {OrderById(PriorMenu),
                            OrderById(MenuRowsOfPayload(req[1].body.values))}

IsHHMM(v) ==
    /\ v.t = "string"
    /\ Len(v.s) = 5
    /\ IsDigit(v.s[1]) /\ IsDigit(v.s[2]) /\ v.s[3] = ":"
    /\ IsDigit(v.s[4]) /\ IsDigit(v.s[5])

\* C10: open and close of every hours row are null or of the form HH:MM.
C10_TimesAreHHMM ==
    \A b \in Businesses : \A k \in 1..Len(hours[b]) :
        /\ hours[b][k].open = Null \/ IsHHMM(hours[b][k].open)
        /\ hours[b][k].close = Null \/ IsHHMM(hours[b][k].close)

=============================================================================
